---- MODULE Spec2Model ----
(***************************************************************************)
(* Model of ByValueChecker (engine/src/conversion/analysis/pod/            *)
(* byvalue_checker.rs): the store `results`, the ingestion steps of        *)
(* new_from_apis, the worklist loop of satisfy_requests and the query      *)
(* is_pod.                                                                 *)
(*                                                                         *)
(* Strings built with format! are modelled as sequences of clauses: one    *)
(* clause per message template, carrying the type names substituted into   *)
(* it.  A message that embeds another message ("... Because: {}") is the   *)
(* clause followed by the embedded message's clauses.                      *)
(*                                                                         *)
(* satisfy_requests is a loop that need not terminate, so one iteration of *)
(* it is one action and pc records whether a call is in progress.          *)
(***************************************************************************)
EXTENDS Naturals, Sequences, FiniteSets, TLC

\* ---------------------------------------------------------------- bounds
MaxFields == 1      \* data fields per struct definition
MaxReq == 1         \* length of the vector handed to satisfy_requests
MaxChain == 2       \* clauses in a stored reason

\* ------------------------------------------------------------ type names
TypeNames == {"i32", "CxxString", "Foo", "Bar"}

\* Names under which declarations (struct, enum, typedef, opaque) arrive.
DeclNames == {"Foo", "Bar"}

\* Names the blocklist may hold: a known type and a declared type.
BlockNames == {"i32", "Bar"}

\* KNOWN_TYPES.get_pod_safe_types(): (type name, by_value_safe) pairs.
get_pod_safe_types == {<<"i32", TRUE>>, <<"CxxString", FALSE>>}

\* A field type that is not a Type::Path (pointer, array, ...).
NonPathTy == "*"

\* ------------------------------------------------------------- messages
Clause(kind, ty, dep) == [kind |-> kind, ty |-> ty, dep |-> dep]

\* "type {} is not safe for POD"
MsgNotSafeForPod(tn) == <<Clause("NotSafeForPod", tn, "")>>
\* "type {} is on the blocklist"
MsgBlocklist(tn) == <<Clause("OnBlocklist", tn, "")>>
\* "Type {} could not be POD because its dependent type {} isn't known"
MsgFieldNotKnown_anonymous(tyname, ty_id) ==
    <<Clause("DependentNotKnown", tyname, "")>>
MsgFieldNotKnown(tyname, ty_id) == <<Clause("DependentNotKnown", tyname, ty_id)>>
\* "Type {} could not be POD because its dependent type {} isn't safe to be
\*  POD. Because: {}"
MsgFieldUnsafe_flat(tyname, ty_id, reason) ==
    <<Clause("DependentUnsafe", tyname, ty_id)>>
MsgFieldUnsafe(tyname, ty_id, reason) ==
    <<Clause("DependentUnsafe", tyname, ty_id)>> \o reason
\* "Type {} could not be POD because it has virtual functions."
MsgVirtual(tyname) == <<Clause("HasVirtualFunctions", tyname, "")>>
\* "Type {} is a typedef to a complex type"
MsgComplexTypedef(tyname) == <<Clause("TypedefToComplexType", tyname, "")>>
MsgNeverSaw_unnamed(ty_id) == <<Clause("NeverSawDefinition", "", "")>>

\* "Unable to make {} POD because we never saw a struct definition"
MsgNeverSaw(ty_id) == <<Clause("NeverSawDefinition", ty_id, "")>>

\* ------------------------------------------------------------- PodState
UnsafeToBePod(reason) == [tag |-> "UnsafeToBePod", reason |-> reason, target |-> ""]
SafeToBePod == [tag |-> "SafeToBePod", reason |-> <<>>, target |-> ""]
IsPod == [tag |-> "IsPod", reason |-> <<>>, target |-> ""]
IsAlias(target) == [tag |-> "IsAlias", reason |-> <<>>, target |-> target]

\* StructDetails::new
StructDetails_new(state) == [state |-> state, dependent_structs |-> <<>>]

insert_merging(map, k, v) ==
    [x \in (DOMAIN map) \cup {k} |->
        IF x # k THEN map[x]
        ELSE IF k \in DOMAIN map
             THEN [state |-> v.state,
                   dependent_structs |->
                       map[k].dependent_structs \o v.dependent_structs]
             ELSE v]

insert_if_absent(map, k, v) ==
    [x \in (DOMAIN map) \cup {k} |-> IF x \in DOMAIN map THEN map[x] ELSE v]

\* HashMap::insert: one record per key, the new record replaces the old one.
insert(map, k, v) == [x \in (DOMAIN map) \cup {k} |-> IF x = k THEN v ELSE map[x]]

EmptyMap == [x \in {} |-> StructDetails_new(IsPod)]

new_all_pod == [tn \in {p[1] : p \in get_pod_safe_types} |-> StructDetails_new(IsPod)]

\* ByValueChecker::new
new == [tn \in {p[1] : p \in get_pod_safe_types} |->
          StructDetails_new(IF <<tn, TRUE>> \in get_pod_safe_types
                            THEN IsPod
                            ELSE UnsafeToBePod(MsgNotSafeForPod(tn)))]

\* ------------------------------------------------------ struct definitions
BoundedSeq(S, n) == UNION {[1..k -> S] : k \in 0..n}

Field(ident, ty) == [ident |-> ident, ty |-> ty]

\* The fields bindgen emits: data fields of a path or non-path type, and
\* the vtable_ pointer field that comes first in a polymorphic struct.
\* Path types a data field may have.  Foo may hold a Bar; a Bar may hold
\* a Bar only through a redeclaration of Bar.
FieldTypes == {"i32", "CxxString", "Bar"}
OrdinaryFields == {Field("a", ty) : ty \in FieldTypes \cup {NonPathTy}}
VtableField == Field("vtable_", NonPathTy)

ItemStructs ==
    {prefix \o fs : prefix \in {<<>>, <<VtableField>>},
                    fs \in BoundedSeq(OrdinaryFields, MaxFields)}

\* The struct definitions new_from_apis is run on: those above and the
\* structs of two data fields a and b of path types.
PipelineStructs ==
    ItemStructs \cup
    {prefix \o <<Field("a", x), Field("b", y)>> :
        prefix \in {<<>>, <<VtableField>>}, x \in FieldTypes, y \in FieldTypes}

get_field_types_no_known_types(def) ==
    LET IsPath(f) == f.ty # NonPathTy /\ f.ty \notin {p[1] : p \in get_pod_safe_types}
        paths == SelectSeq(def, IsPath)
    IN  [i \in 1..Len(paths) |-> paths[i].ty]

\* ByValueChecker::get_field_types
get_field_types(def) ==
    LET IsPath(f) == f.ty # NonPathTy
        paths == SelectSeq(def, IsPath)
    IN  [i \in 1..Len(paths) |-> paths[i].ty]

has_vtable_misspelt(def) == \E i \in 1..Len(def) : def[i].ident = "vtable"

\* ByValueChecker::has_vtable
has_vtable(def) == \E i \in 1..Len(def) : def[i].ident = "vtable_"

RECURSIVE field_scan_skip_missing(_, _, _, _)
field_scan_skip_missing(res, tyname, fieldlist, i) ==
    IF i > Len(fieldlist) THEN SafeToBePod
    ELSE LET ty_id == fieldlist[i] IN
         IF ty_id \in DOMAIN res /\ res[ty_id].state.tag = "UnsafeToBePod"
         THEN UnsafeToBePod(MsgFieldUnsafe(tyname, ty_id, res[ty_id].state.reason))
         ELSE field_scan_skip_missing(res, tyname, fieldlist, i + 1)

RECURSIVE field_scan_no_break(_, _, _, _)
field_scan_no_break(res, tyname, fieldlist, i) ==
    IF i > Len(fieldlist) THEN SafeToBePod
    ELSE LET ty_id == fieldlist[i]
             later == field_scan_no_break(res, tyname, fieldlist, i + 1)
         IN  IF later.tag = "UnsafeToBePod" THEN later
             ELSE IF ty_id \notin DOMAIN res
                  THEN UnsafeToBePod(MsgFieldNotKnown(tyname, ty_id))
                  ELSE IF res[ty_id].state.tag = "UnsafeToBePod"
                       THEN UnsafeToBePod(MsgFieldUnsafe(tyname, ty_id,
                                                         res[ty_id].state.reason))
                       ELSE SafeToBePod

\* The for loop of ingest_struct, from field i on: the first field that has
\* no record or an unsafe record decides, later fields are not looked at.
RECURSIVE field_scan(_, _, _, _)
field_scan(res, tyname, fieldlist, i) ==
    IF i > Len(fieldlist) THEN SafeToBePod
    ELSE LET ty_id == fieldlist[i] IN
         IF ty_id \notin DOMAIN res
         THEN UnsafeToBePod(MsgFieldNotKnown(tyname, ty_id))
         ELSE IF res[ty_id].state.tag = "UnsafeToBePod"
              THEN UnsafeToBePod(MsgFieldUnsafe(tyname, ty_id, res[ty_id].state.reason))
              ELSE field_scan(res, tyname, fieldlist, i + 1)

ingest_struct_fields_first(res, tyname, def) ==
    LET fieldlist == get_field_types(def)
        scanned == field_scan(res, tyname, fieldlist, 1)
        field_safety_problem ==
            IF has_vtable(def) /\ scanned = SafeToBePod
            THEN UnsafeToBePod(MsgVirtual(tyname))
            ELSE scanned
        my_details == [state |-> field_safety_problem,
                       dependent_structs |-> fieldlist]
    IN  insert(res, tyname, my_details)

\* ByValueChecker::ingest_struct: the store after ingesting def as tyname.
ingest_struct(res, tyname, def) ==
    LET fieldlist == get_field_types(def)
        scanned == field_scan(res, tyname, fieldlist, 1)
        field_safety_problem ==
            IF has_vtable(def) THEN UnsafeToBePod(MsgVirtual(tyname)) ELSE scanned
        my_details == [state |-> field_safety_problem,
                       dependent_structs |-> fieldlist]
    IN  insert(res, tyname, my_details)

ingest_nonpod_type_keeps_unsafe(res, tyname) ==
    IF tyname \in DOMAIN res /\ res[tyname].state.tag = "UnsafeToBePod"
    THEN insert(res, tyname, StructDetails_new(res[tyname].state))
    ELSE insert(res, tyname,
                StructDetails_new(UnsafeToBePod(MsgComplexTypedef(tyname))))

\* ByValueChecker::ingest_nonpod_type
ingest_nonpod_type(res, tyname) ==
    insert(res, tyname, StructDetails_new(UnsafeToBePod(MsgComplexTypedef(tyname))))

is_pod_lenient(res, ty_id) ==
    IF ty_id \in DOMAIN res
    THEN res[ty_id].state.tag \in {"IsPod", "SafeToBePod"}
    ELSE FALSE

\* ByValueChecker::is_pod
is_pod(res, ty_id) ==
    IF ty_id \in DOMAIN res THEN res[ty_id].state = IsPod ELSE FALSE

\* ------------------------------------------------------------------ state
VARIABLES
    results,     \* ByValueChecker.results
    pc,          \* "blocklist" | "apis" | "satisfy" | "returned" | "exhausted"
                 \* | "done"
    requests,    \* the worklist of the running satisfy_requests call
    ret,         \* what the last satisfy_requests call returned
    requested,   \* the vector the last call was made with
    pre,         \* the store when the last call was made
    out,         \* what new_from_apis returned
    type_config, \* the blocklist of the TypeConfig the parser was made with
    items,       \* the bindgen items parse_mod_items has gone through
    apis         \* ParseResults.apis, what the apis loop has still to take

vars == <<results, pc, requests, ret, requested, pre, out, type_config, items, apis>>

\* The state of a run of the parser in front of new_from_apis
parser == <<type_config, items, apis>>

NoRet == [tag |-> "None", msg |-> <<>>]
Ok == [tag |-> "Ok", msg |-> <<>>]
Err(msg) == [tag |-> "Err", msg |-> msg]

\* Result<ByValueChecker, ConvertError> of new_from_apis
NoChecker == [tag |-> "None", msg |-> <<>>, checker |-> EmptyMap]
OkChecker(res) == [tag |-> "Ok", msg |-> <<>>, checker |-> res]
UnsafePodType(msg) == [tag |-> "Err", msg |-> msg, checker |-> EmptyMap]

Init ==
    /\ results = new
    /\ pc = "blocklist"
    /\ requests = <<>>
    /\ ret = NoRet
    /\ requested = <<>>
    /\ pre = EmptyMap
    /\ out = NoChecker
    /\ type_config = {}
    /\ items = <<>>
    /\ apis = <<>>

\* new_from_apis runs the blocklist loop, then the apis loop, then
\* satisfy_requests; the tests call ingest_struct and then satisfy_requests.
\* pc = "blocklist": in (or before) the blocklist loop; pc = "apis": in the
\* apis loop; pc = "satisfy": in the while loop of satisfy_requests;
\* pc = "returned": satisfy_requests has returned; pc = "done":
\* new_from_apis has returned.
Ingesting == pc \in {"blocklist", "apis"}
Callable == pc \in {"blocklist", "apis", "returned"}

\* An ingestion step leaves the store res behind.
Ingested(res, nextpc) ==
    /\ \A t \in DOMAIN res : Len(res[t].state.reason) <= MaxChain
    /\ results' = res
    /\ pc' = nextpc
    /\ UNCHANGED <<requests, ret, requested, pre, out, type_config, items>>

IngestBlocklist_any_time(tn) ==
    /\ Ingesting
    /\ Ingested(insert(results, tn, StructDetails_new(UnsafeToBePod(MsgBlocklist(tn)))),
                pc)
    /\ UNCHANGED apis

\* new_from_apis, the blocklist loop: one entry.
IngestBlocklist(tn) ==
    /\ pc = "blocklist"
    /\ Ingested(insert(results, tn, StructDetails_new(UnsafeToBePod(MsgBlocklist(tn)))),
                "blocklist")
    /\ UNCHANGED apis

\* new_from_apis, ApiDetail::Typedef whose type resolved to target.
IngestAlias(name, target) ==
    /\ Ingesting
    /\ Ingested(insert(results, name, StructDetails_new(IsAlias(target))), "apis")
    /\ UNCHANGED apis

\* new_from_apis, ApiDetail::Typedef whose type did not resolve, and
\* ApiDetail::OpaqueTypedef.
IngestNonpod(name) ==
    /\ Ingesting
    /\ Ingested(ingest_nonpod_type(results, name), "apis")
    /\ UNCHANGED apis

\* new_from_apis, ApiDetail::Type with Item::Struct.
IngestStruct(name, def) ==
    /\ Ingesting
    /\ Ingested(ingest_struct(results, name, def), "apis")
    /\ UNCHANGED apis

\* new_from_apis, ApiDetail::Type with Item::Enum.
IngestEnum(name) ==
    /\ Ingesting
    /\ Ingested(insert(results, name, StructDetails_new(IsPod)), "apis")
    /\ UNCHANGED apis

\* ------------------------------------------------------- satisfy_requests
RequestNames == TypeNames
RequestVecs == BoundedSeq(RequestNames, MaxReq)

\* type_config.get_pod_requests() in the runs of new_from_apis: two names.
PodRequests == {<<a, b>> : a \in RequestNames, b \in RequestNames}

\* The Vec of the code grows without bound.  The model gives it a capacity
\* that no call whose loop ends can need: a record pushes its
\* dependent_structs only when it turns from SafeToBePod to IsPod, and only
\* the records of declared names have any.  A call that outgrows the
\* capacity stops in pc = "exhausted".
StackCap ==
    LET lens == {Len(r) : r \in RequestVecs \cup PodRequests}
        deps == {Len(get_field_types(d)) : d \in PipelineStructs}
        Max(S) == CHOOSE m \in S : \A n \in S : n <= m
    IN  Max(lens) + Cardinality(DeclNames) * Max(deps)

\* satisfy_requests is entered with the vector reqs.
SatisfyCall(reqs) ==
    /\ Callable
    /\ pc' = "satisfy"
    /\ requests' = reqs
    /\ requested' = reqs
    /\ pre' = results
    /\ ret' = NoRet
    /\ UNCHANGED <<results, out, parser>>

ReturnErr_rolls_back(msg, rest) ==
    /\ pc' = "returned"
    /\ ret' = Err(msg)
    /\ requests' = rest
    /\ results' = pre
    /\ UNCHANGED <<requested, pre, out, parser>>

\* return Err(msg) from inside the loop
ReturnErr(msg, rest) ==
    /\ pc' = "returned"
    /\ ret' = Err(msg)
    /\ requests' = rest
    /\ UNCHANGED <<results, requested, pre, out, parser>>

\* the end of one iteration: the store is res and the worklist is stack
Continue(res, stack) ==
    /\ results' = res
    /\ IF Len(stack) > StackCap
       THEN pc' = "exhausted" /\ requests' = requests
       ELSE pc' = "satisfy" /\ requests' = stack
    /\ UNCHANGED <<ret, requested, pre, out, parser>>

confirm_clears_dependencies(res, ty_id) ==
    [res EXCEPT ![ty_id] = StructDetails_new(IsPod)]

confirm_forgotten(res, ty_id) == res

\* PodState::SafeToBePod arm: deets.state = PodState::IsPod
confirm(res, ty_id) == [res EXCEPT ![ty_id].state = IsPod]

copy_alias_confirms_target(res, ty_id, alias) ==
    [res EXCEPT ![ty_id].state = res[alias].state,
                ![alias].state = IF res[alias].state = SafeToBePod
                                 THEN IsPod
                                 ELSE res[alias].state]

copy_alias_whole_record(res, ty_id, alias) == [res EXCEPT ![ty_id] = res[alias]]

copy_alias_forgotten(res, ty_id, alias) == res

copy_alias_onto_target(res, ty_id, alias) ==
    [res EXCEPT ![alias].state = res[ty_id].state]

\* alias arm, target present: the target's state is cloned onto ty_id
copy_alias(res, ty_id, alias) == [res EXCEPT ![ty_id].state = res[alias].state]

\* Vec::remove(index), positions counted from 1
remove(v, index) == SubSeq(v, 1, index - 1) \o SubSeq(v, index + 1, Len(v))

pop_index_front(v) == 1

\* requests.len() - 1, the position satisfy_requests removes: the last one
pop_index(v) == Len(v)

SatisfyStep_alias_repushes ==
    /\ pc = "satisfy"
    /\ requests # <<>>
    /\ LET ty_id == requests[pop_index(requests)]
           rest == remove(requests, pop_index(requests))
       IN  IF ty_id \notin DOMAIN results
           THEN ReturnErr(MsgNeverSaw(ty_id), rest)
           ELSE LET deets == results[ty_id] IN
                CASE deets.state.tag = "UnsafeToBePod" ->
                       ReturnErr(deets.state.reason, rest)
                  [] deets.state.tag = "IsPod" ->
                       Continue(results, rest)
                  [] deets.state.tag = "SafeToBePod" ->
                       Continue(confirm(results, ty_id),
                                rest \o deets.dependent_structs)
                  [] deets.state.tag = "IsAlias" ->
                       LET alias == deets.state.target IN
                       IF alias \notin DOMAIN results
                       THEN Continue(results, rest \o <<alias, ty_id>>)
                       ELSE Continue(copy_alias(results, ty_id, alias),
                                     rest \o <<ty_id>>)

SatisfyStep_pod_repushes ==
    /\ pc = "satisfy"
    /\ requests # <<>>
    /\ LET ty_id == requests[pop_index(requests)]
           rest == remove(requests, pop_index(requests))
       IN  IF ty_id \notin DOMAIN results
           THEN ReturnErr(MsgNeverSaw(ty_id), rest)
           ELSE LET deets == results[ty_id] IN
                CASE deets.state.tag = "UnsafeToBePod" ->
                       ReturnErr(deets.state.reason, rest)
                  [] deets.state.tag \in {"IsPod", "SafeToBePod"} ->
                       Continue(confirm(results, ty_id),
                                rest \o deets.dependent_structs)
                  [] deets.state.tag = "IsAlias" ->
                       LET alias == deets.state.target IN
                       IF alias \notin DOMAIN results
                       THEN Continue(results, rest \o <<alias, ty_id>>)
                       ELSE Continue(copy_alias(results, ty_id, alias), rest)

\* One iteration of the while loop of satisfy_requests.
SatisfyStep ==
    /\ pc = "satisfy"
    /\ requests # <<>>
    /\ LET ty_id == requests[pop_index(requests)]
           rest == remove(requests, pop_index(requests))
       IN  IF ty_id \notin DOMAIN results
           THEN ReturnErr(MsgNeverSaw(ty_id), rest)
           ELSE LET deets == results[ty_id] IN
                CASE deets.state.tag = "UnsafeToBePod" ->
                       ReturnErr(deets.state.reason, rest)
                  [] deets.state.tag = "IsPod" ->
                       Continue(results, rest)
                  [] deets.state.tag = "SafeToBePod" ->
                       Continue(confirm(results, ty_id),
                                rest \o deets.dependent_structs)
                  [] deets.state.tag = "IsAlias" ->
                       LET alias == deets.state.target IN
                       IF alias \notin DOMAIN results
                       THEN Continue(results, rest \o <<alias, ty_id>>)
                       ELSE Continue(copy_alias(results, ty_id, alias), rest)

\* The loop condition fails: Ok(()).
SatisfyReturn ==
    /\ pc = "satisfy"
    /\ requests = <<>>
    /\ pc' = "returned"
    /\ ret' = Ok
    /\ UNCHANGED <<results, requests, requested, pre, out, parser>>

\* ------------------------------------------------------------------- spec
Next ==
    \/ \E tn \in BlockNames : IngestBlocklist(tn)
    \/ \E name \in DeclNames, target \in TypeNames : IngestAlias(name, target)
    \/ \E name \in DeclNames : IngestNonpod(name)
    \/ \E name \in DeclNames, def \in ItemStructs : IngestStruct(name, def)
    \/ \E name \in DeclNames : IngestEnum(name)
    \/ \E reqs \in RequestVecs : SatisfyCall(reqs)
    \/ SatisfyStep
    \/ SatisfyReturn

Spec == Init /\ [][Next]_vars

\* --------------------------------------------------------- new_from_apis
\* new_from_apis, lines 135-142: satisfy_requests is called once, after the
\* loops, with the pod requests.
PodRequestsCall(reqs) ==
    /\ Ingesting
    /\ SatisfyCall(reqs)

NewFromApisReturn_keeps_checker ==
    /\ pc = "returned"
    /\ pc' = "done"
    /\ out' = OkChecker(results)
    /\ UNCHANGED <<results, requests, ret, requested, pre, parser>>

\* new_from_apis, lines 140-143: `?` returns the error of satisfy_requests
\* as ConvertError::UnsafePodType and drops the checker; otherwise the
\* checker is returned.
NewFromApisReturn ==
    /\ pc = "returned"
    /\ pc' = "done"
    /\ out' = IF ret = Ok THEN OkChecker(results) ELSE UnsafePodType(ret.msg)
    /\ UNCHANGED <<results, requests, ret, requested, pre, parser>>

NextPipeline ==
    \/ \E tn \in BlockNames : IngestBlocklist(tn)
    \/ \E name \in DeclNames, target \in TypeNames : IngestAlias(name, target)
    \/ \E name \in DeclNames : IngestNonpod(name)
    \/ \E name \in DeclNames, def \in PipelineStructs : IngestStruct(name, def)
    \/ \E name \in DeclNames : IngestEnum(name)
    \/ \E reqs \in PodRequests : PodRequestsCall(reqs)
    \/ SatisfyStep
    \/ SatisfyReturn
    \/ NewFromApisReturn

SpecPipeline == Init /\ [][NextPipeline]_vars

\* ---------------------------------------------------------- ParseBindgen
\* The items of the bindgen mod, all in the root namespace: a struct, an
\* enum, and a type alias whose type converts to the path type ty, to a
\* type that is no path (ty = NonPathTy) or not at all (ty = OpaqueTy,
\* ConvertError::OpaqueTypeFound).
OpaqueTy == "?"

Item(kind, name, def, ty) == [kind |-> kind, name |-> name, def |-> def, ty |-> ty]

BindgenItems ==
    {Item("Struct", name, def, "") : name \in DeclNames, def \in ItemStructs}
    \cup {Item("Enum", name, <<>>, "") : name \in DeclNames}
    \cup {Item("Type", name, <<>>, ty) :
             name \in DeclNames, ty \in TypeNames \cup {NonPathTy, OpaqueTy}}

\* UnanalyzedApi: detail is "Type" (with the struct or enum as its
\* bindgen_mod_item), "Typedef" or "OpaqueTypedef"
Api(detail, item) == [detail |-> detail, name |-> item.name,
                      bindgen_mod_item |-> item.kind, def |-> item.def,
                      ty |-> item.ty]

\* One item for each name that can be declared is as far as the parser is
\* followed.
ItemsCap == Cardinality(DeclNames)

\* TypeConfig::is_on_blocklist on the cpp name of a type of the root
\* namespace
is_on_blocklist(cfg, cpp_name) == cpp_name \in cfg

parse_type_keeps_blocklisted(cfg, res_apis, item) == Append(res_apis, Api("Type", item))

\* ParseBindgen::parse_type: nothing is pushed for a blocklisted name.
parse_type(cfg, res_apis, item) ==
    IF is_on_blocklist(cfg, item.name)
    THEN res_apis
    ELSE Append(res_apis, Api("Type", item))

\* ParseBindgen::parse_item, the arms for Item::Struct, Item::Enum and
\* Item::Type
parse_item(cfg, res_apis, item) ==
    CASE item.kind \in {"Struct", "Enum"} -> parse_type(cfg, res_apis, item)
      [] item.kind = "Type" /\ item.ty = OpaqueTy ->
             Append(res_apis, Api("OpaqueTypedef", item))
      [] item.kind = "Type" /\ item.ty # OpaqueTy ->
             Append(res_apis, Api("Typedef", item))

\* parse_mod_items, one turn of its loop
ParseItem(item) ==
    /\ pc = "parse"
    /\ Len(items) < ItemsCap
    /\ items' = Append(items, item)
    /\ apis' = parse_item(type_config, apis, item)
    /\ UNCHANGED <<results, pc, requests, ret, requested, pre, out, type_config>>

\* parse_items returns the apis; new_from_apis is called on them with the
\* same TypeConfig.
ParseItemsReturn ==
    /\ pc = "parse"
    /\ pc' = "blocklist"
    /\ UNCHANGED <<results, requests, ret, requested, pre, out, parser>>

\* The blocklist loop of new_from_apis has stored every entry of the
\* blocklist.
BlocklistStored ==
    \A tn \in type_config :
        /\ tn \in DOMAIN results
        /\ results[tn] = StructDetails_new(UnsafeToBePod(MsgBlocklist(tn)))

\* new_from_apis, the blocklist loop: the next entry of get_blocklist()
BlocklistEntry(tn) ==
    /\ tn \in type_config
    /\ ~(tn \in DOMAIN results
         /\ results[tn] = StructDetails_new(UnsafeToBePod(MsgBlocklist(tn))))
    /\ IngestBlocklist(tn)

\* new_from_apis, one turn of the apis loop: the match on api.detail
IngestApi ==
    /\ Ingesting
    /\ BlocklistStored
    /\ apis # <<>>
    /\ LET api == Head(apis)
           name == api.name
       IN  Ingested(
             CASE api.detail = "Typedef" /\ api.ty # NonPathTy ->
                    insert(results, name, StructDetails_new(IsAlias(api.ty)))
               [] api.detail = "Typedef" /\ api.ty = NonPathTy ->
                    ingest_nonpod_type(results, name)
               [] api.detail = "Type" /\ api.bindgen_mod_item = "Struct" ->
                    ingest_struct(results, name, api.def)
               [] api.detail = "Type" /\ api.bindgen_mod_item = "Enum" ->
                    insert(results, name, StructDetails_new(IsPod))
               [] api.detail = "OpaqueTypedef" ->
                    ingest_nonpod_type(results, name),
             "apis")
    /\ apis' = Tail(apis)

\* get_pod_requests() in the runs behind the parser: one name
ParseRequests == {<<a>> : a \in RequestNames}

\* new_from_apis, lines 135-142, after both loops have ended
ParsePodRequestsCall(reqs) ==
    /\ BlocklistStored
    /\ apis = <<>>
    /\ PodRequestsCall(reqs)

\* The parser is made with a TypeConfig and has parsed nothing yet.
InitParse ==
    /\ results = new
    /\ pc = "parse"
    /\ requests = <<>>
    /\ ret = NoRet
    /\ requested = <<>>
    /\ pre = EmptyMap
    /\ out = NoChecker
    /\ type_config \in SUBSET BlockNames
    /\ items = <<>>
    /\ apis = <<>>

NextParse ==
    \/ \E item \in BindgenItems : ParseItem(item)
    \/ ParseItemsReturn
    \/ \E tn \in BlockNames : BlocklistEntry(tn)
    \/ IngestApi
    \/ \E reqs \in ParseRequests : ParsePodRequestsCall(reqs)
    \/ SatisfyStep
    \/ SatisfyReturn
    \/ NewFromApisReturn

\* The parser followed by new_from_apis on what it returned
SpecParse == InitParse /\ [][NextParse]_vars

TypeOK ==
    /\ DOMAIN results \subseteq TypeNames
    /\ pc \in {"parse", "blocklist", "apis", "satisfy", "returned", "exhausted",
               "done"}
    /\ Len(requests) <= StackCap

\* ================================================================ claims
Returned == pc = "returned"
Succeeded == Returned /\ ret = Ok
Failed == Returned /\ ret.tag = "Err"

Terminal(state) == state.tag \in {"IsPod", "UnsafeToBePod"}

\* The struct definitions, by the field types get_field_types finds in them
StructDefsWith ==
    [fl \in BoundedSeq(FieldTypes, MaxFields) |->
        {def \in ItemStructs : get_field_types(def) = fl}]

\* The step is the ingestion of a struct under the name tn: such a step
\* leaves the definition's field types in the record of tn.
StructStep(tn) ==
    /\ tn \in DOMAIN results'
    /\ \E def \in StructDefsWith[results'[tn].dependent_structs] :
          IngestStruct(tn, def)

\* The step is an ingestion under the name tn.
IngestOf(tn) ==
    /\ Ingesting
    /\ pc' \in {"blocklist", "apis"}
    /\ \/ StructStep(tn)
       \/ IngestEnum(tn)
       \/ IngestNonpod(tn)
       \/ \E target \in TypeNames : IngestAlias(tn, target)
       \/ IngestBlocklist(tn)

\* The struct ingestions <<name, def>> that new_from_apis can make next
StructIngestions ==
    IF Ingesting
    THEN {<<name, def>> : name \in DeclNames, def \in ItemStructs}
    ELSE {}

\* t followed through IsAlias records, at most once per type name
RECURSIVE follow_alias(_, _, _)
follow_alias(res, t, fuel) ==
    IF fuel = 0 \/ t \notin DOMAIN res THEN t
    ELSE IF res[t].state.tag = "IsAlias"
         THEN follow_alias(res, res[t].state.target, fuel - 1)
         ELSE t

UltimateTarget(res, t) == follow_alias(res, t, Cardinality(TypeNames))

FieldTypeSafe(res, f) ==
    LET u == UltimateTarget(res, f)
    IN  u \in DOMAIN res /\ res[u].state.tag # "UnsafeToBePod"

\* C1: after satisfy_requests has returned Ok, no type that is_pod has a
\* field type (an entry of its dependent_structs) which, followed through
\* aliases, is unsafe or has no record.
C1_Soundness ==
    Succeeded =>
        \A T \in DOMAIN results :
            is_pod(results, T) =>
                \A i \in DOMAIN results[T].dependent_structs :
                    FieldTypeSafe(results, results[T].dependent_structs[i])

\* C2: is_pod answers TRUE exactly for a name that has a record whose state
\* is IsPod; it answers FALSE for a name without a record and for a record
\* that is SafeToBePod, UnsafeToBePod or IsAlias.
C2_IsPodExact ==
    \A t \in TypeNames :
        /\ is_pod(results, t) <=>
               (t \in DOMAIN results /\ results[t].state.tag = "IsPod")
        /\ t \notin DOMAIN results => ~is_pod(results, t)
        /\ t \in DOMAIN results
             /\ results[t].state.tag \in {"SafeToBePod", "UnsafeToBePod", "IsAlias"}
             => ~is_pod(results, t)

\* C2 witness: a call has returned Ok and the store still holds a struct
\* that was never confirmed, an alias that was never resolved and an unsafe
\* type, next to a type that is pod.
C2_Witness ==
    /\ Succeeded
    /\ requested = <<"i32">>
    /\ "Foo" \in DOMAIN results /\ results["Foo"].state.tag = "SafeToBePod"
    /\ "Bar" \in DOMAIN results /\ results["Bar"].state.tag = "IsAlias"
    /\ results["CxxString"].state.tag = "UnsafeToBePod"
    /\ is_pod(results, "i32")
    /\ ~is_pod(results, "Foo") /\ ~is_pod(results, "Bar")
    /\ ~is_pod(results, "CxxString")

\* C3 as claimed: a state that is IsPod or UnsafeToBePod is never changed
\* by any later step.
C3_Monotonic ==
    [][\A t \in DOMAIN results :
          Terminal(results[t].state) => results'[t].state = results[t].state]_vars

\* C3 as amended: a state that is IsPod or UnsafeToBePod is changed only by
\* an ingestion step for that same name; no step of satisfy_requests
\* changes it.
C3_MonotonicUnlessReingested ==
    [][\A t \in DOMAIN results :
          (Terminal(results[t].state) /\ results'[t].state # results[t].state)
              => IngestOf(t)]_vars

\* C3 witness: a call has returned after changing some record, and a
\* record that was IsPod or UnsafeToBePod when it was made is as it was.
C3_Witness ==
    /\ Returned
    /\ \E t \in DOMAIN pre : Terminal(pre[t].state) /\ results[t] = pre[t]
    /\ \E u \in DOMAIN pre : results[u] # pre[u]

\* C4: after satisfy_requests(requested) has returned Ok, every requested
\* name is_pod.
C4_RequestedArePod ==
    Succeeded => \A i \in DOMAIN requested : is_pod(results, requested[i])

\* Names reachable from the names in S through dependent_structs.
RECURSIVE DepClosure(_, _)
DepClosure(res, S) ==
    LET more == UNION {{res[t].dependent_structs[i] :
                          i \in DOMAIN res[t].dependent_structs} :
                       t \in S \cap DOMAIN res}
    IN  IF more \subseteq S THEN S ELSE DepClosure(res, S \cup more)

\* C5: after satisfy_requests(requested) has returned Ok, every name
\* reachable from a requested name through dependent_structs is_pod.
C5_ClosureIsPod ==
    Succeeded =>
        \A t \in DepClosure(results, {requested[i] : i \in DOMAIN requested}) :
            is_pod(results, t)

\* C6: every call of satisfy_requests returns: its worklist never outgrows
\* what a call that returns can need.
C6_ConfirmReturns == pc # "exhausted"


\* f is a known type seeded as safe and res holds its seeded record
SeededSafe(res, f) ==
    <<f, TRUE>> \in get_pod_safe_types /\ f \in DOMAIN res /\ res[f] = new[f]

UnsafeIn(res, f) == f \in DOMAIN res /\ res[f].state.tag = "UnsafeToBePod"

\* fieldlist[j] is the first entry of fieldlist that has no record in res or
\* an unsafe one
FirstProblem(res, fieldlist, j) ==
    /\ j \in DOMAIN fieldlist
    /\ fieldlist[j] \notin DOMAIN res \/ UnsafeIn(res, fieldlist[j])
    /\ \A k \in 1..(j - 1) :
          fieldlist[k] \in DOMAIN res /\ ~UnsafeIn(res, fieldlist[k])

\* satisfy_requests was called with the one name t
CalledWith(t) == Returned /\ requested = <<t>> /\ t \in DOMAIN pre

\* C7: a struct all of whose fields have known types seeded as safe is
\* recorded SafeToBePod when it is ingested, and is not yet pod; when
\* satisfy_requests is called with its name, it returns Ok and the struct
\* is pod.
PrimitiveStructRequestSucceeds ==
    \A t \in TypeNames :
        (CalledWith(t) /\ pre[t].state = SafeToBePod
           /\ \A i \in DOMAIN pre[t].dependent_structs :
                 SeededSafe(pre, pre[t].dependent_structs[i]))
        => (ret = Ok /\ is_pod(results, t))

C7_PrimitiveStruct ==
    /\ \A nd \in StructIngestions :
          LET name == nd[1]
              def == nd[2]
              res == ingest_struct(results, name, def)
          IN  (\A i \in DOMAIN def : SeededSafe(results, def[i].ty))
              => (res[name].state = SafeToBePod /\ ~is_pod(res, name))
    /\ PrimitiveStructRequestSucceeds

\* C7 witness: Foo { a: i32 } was requested and is pod.
C7_Witness ==
    /\ CalledWith("Foo")
    /\ pre["Foo"] = [state |-> SafeToBePod, dependent_structs |-> <<"i32">>]
    /\ SeededSafe(pre, "i32")
    /\ ret = Ok
    /\ is_pod(results, "Foo")

\* satisfy_requests called with the name of an unsafe record returns that
\* record's reason and leaves the store as it was
UnsafeRequestFails ==
    \A t \in TypeNames :
        (CalledWith(t) /\ pre[t].state.tag = "UnsafeToBePod")
        => (ret = Err(pre[t].state.reason) /\ results = pre)

\* reason names the struct outer and its field type inner_ty, and the
\* reason of inner_ty follows at its end, whole
NestsAtEnd(reason, outer, inner_ty, inner_reason) ==
    /\ Len(reason) = Len(inner_reason) + 1
    /\ reason[1] = Clause("DependentUnsafe", outer, inner_ty)
    /\ Tail(reason) = inner_reason

Names(msg, f) == \E k \in DOMAIN msg : msg[k].ty = f \/ msg[k].dep = f

\* satisfy_requests called with the name of a struct recorded with the
\* isn't-known reason returns that reason, which names the field type
MissingFieldRequestFails ==
    \A t \in TypeNames, F \in TypeNames :
        (CalledWith(t) /\ pre[t].state = UnsafeToBePod(MsgFieldNotKnown(t, F)))
        => (ret = Err(MsgFieldNotKnown(t, F)) /\ Names(ret.msg, F))

ForwardReferenceRequestFails ==
    \A S \in TypeNames :
        CalledWith(S) =>
            \A F \in TypeNames :
                pre[S].state = UnsafeToBePod(MsgFieldNotKnown(S, F))
                => (ret.tag = "Err" /\ ~is_pod(results, S) /\ results[S] = pre[S])

ForwardReferenceIngestion ==
    \A nd \in StructIngestions :
        LET S == nd[1]
            def == nd[2]
            res == ingest_struct(results, S, def)
            fl == get_field_types(def)
        IN  /\ (\E j \in DOMAIN fl : fl[j] \notin DOMAIN results)
                  => res[S].state.tag = "UnsafeToBePod"
            /\ (~has_vtable(def)
                  /\ \A j \in DOMAIN fl :
                        fl[j] \in DOMAIN results /\ ~UnsafeIn(results, fl[j]))
                  => res[S].state = SafeToBePod

C10_ForwardReference ==
    /\ []ForwardReferenceIngestion
    /\ [][\A S \in DOMAIN results :
            (S \notin DOMAIN results' \/ results'[S] # results[S]) =>
                \A F \in TypeNames :
                    results[S].state = UnsafeToBePod(MsgFieldNotKnown(S, F))
                    => (IngestOf(S) /\ (F # S => ~IngestOf(F)))]_vars
    /\ []ForwardReferenceRequestFails

\* C10 witness: Foo { a: Bar } was ingested before Bar, Bar was then
\* ingested as a safe type, and satisfy_requests on Foo failed.
C10_Witness ==
    /\ CalledWith("Foo")
    /\ pre["Foo"].state = UnsafeToBePod(MsgFieldNotKnown("Foo", "Bar"))
    /\ "Bar" \in DOMAIN pre
    /\ pre["Bar"].state.tag \in {"IsPod", "SafeToBePod"}
    /\ ret.tag = "Err"
    /\ ~is_pod(results, "Foo")

\* satisfy_requests was called with the two names a and b, in this order
CalledWithPair(a, b) == Returned /\ requested = <<a, b>>

\* f has no record in res or an unsafe one
ProblemIn(res, f) == f \notin DOMAIN res \/ UnsafeIn(res, f)

\* C11: satisfy_requests works last-in-first-out.  An iteration leaves the
\* worklist below its last element as it was.  Called with [A, B] where A
\* and B are both unsafe, it returns B's reason.  Called with [A, S] where
\* A is unsafe or absent and S is SafeToBePod with an unsafe last
\* dependency D, it makes S pod and returns D's reason: D is processed
\* before A.
C11_LastInFirstOut ==
    /\ [][(pc = "satisfy" /\ pc' = "satisfy") =>
            LET n == Len(requests) - 1
            IN  /\ Len(requests') >= n
                /\ SubSeq(requests', 1, n) = SubSeq(requests, 1, n)]_vars
    /\ [](\A A \in TypeNames, B \in TypeNames :
            (CalledWithPair(A, B) /\ UnsafeIn(pre, A) /\ UnsafeIn(pre, B))
            => ret = Err(pre[B].state.reason))
    /\ [](\A A \in TypeNames, S \in TypeNames :
            (/\ CalledWithPair(A, S)
             /\ ProblemIn(pre, A)
             /\ S \in DOMAIN pre
             /\ pre[S].state = SafeToBePod
             /\ pre[S].dependent_structs # <<>>
             /\ UnsafeIn(pre, pre[S].dependent_structs[Len(pre[S].dependent_structs)]))
            => LET D == pre[S].dependent_structs[Len(pre[S].dependent_structs)]
               IN  ret = Err(pre[D].state.reason) /\ is_pod(results, S))

\* C11 witness: satisfy_requests([CxxString, Bar]) with Bar unsafe for a
\* reason other than CxxString's returned Bar's reason.
C11_Witness ==
    /\ CalledWithPair("CxxString", "Bar")
    /\ UnsafeIn(pre, "CxxString") /\ UnsafeIn(pre, "Bar")
    /\ pre["Bar"].state.reason # pre["CxxString"].state.reason
    /\ ret = Err(pre["Bar"].state.reason)

\* the record the blocklist loop stores for tn
BlocklistRecord(tn) == StructDetails_new(UnsafeToBePod(MsgBlocklist(tn)))

Blocklisted(res, tn) == tn \in DOMAIN res /\ res[tn] = BlocklistRecord(tn)

InOrAfterCall == pc \in {"satisfy", "returned", "exhausted", "done"}

\* the definition is one bindgen emits for a class with virtual functions
Polymorphic(def) == \E i \in DOMAIN def : def[i] = VtableField

\* C13: a struct ingested with a vtable_ field is recorded unsafe with the
\* has-virtual-functions reason, whatever its field types are, so it is
\* not SafeToBePod and not pod; no satisfy_requests call changes that
\* record, and a call with its name returns that reason.
C13_VtableUnsafe ==
    /\ \A nd \in StructIngestions :
          LET name == nd[1]
              def == nd[2]
              res == ingest_struct(results, name, def)
          IN  Polymorphic(def) =>
                  /\ res[name].state = UnsafeToBePod(MsgVirtual(name))
                  /\ res[name].state # SafeToBePod
                  /\ ~is_pod(res, name)
    /\ \A t \in DOMAIN pre :
          (InOrAfterCall /\ pre[t].state = UnsafeToBePod(MsgVirtual(t)))
          => (results[t] = pre[t] /\ ~is_pod(results, t))
    /\ \A t \in TypeNames :
          (CalledWith(t) /\ pre[t].state = UnsafeToBePod(MsgVirtual(t)))
          => ret = Err(MsgVirtual(t))

\* C13 witness: Foo { vtable_, a: i32 } with i32 pod was requested; the
\* call failed with the has-virtual-functions reason and Foo is not pod.
C13_Witness ==
    /\ CalledWith("Foo")
    /\ pre["Foo"].dependent_structs = <<"i32">>
    /\ is_pod(pre, "i32")
    /\ pre["Foo"].state = UnsafeToBePod(MsgVirtual("Foo"))
    /\ ret = Err(MsgVirtual("Foo"))
    /\ ~is_pod(results, "Foo")

\* new() has run and nothing else has touched the store: the blocklist
\* loop has stored no record yet
JustSeeded == pc = "blocklist" /\ \A tn \in BlockNames : ~Blocklisted(results, tn)

\* C14: right after seeding, before any satisfy_requests call, the store
\* holds exactly the known types; one whose flag is by-value-safe is pod,
\* one whose flag is not has an unsafe record and is not pod, and every
\* record has empty dependent_structs.
C14_Seeding ==
    JustSeeded =>
        /\ DOMAIN results = {p[1] : p \in get_pod_safe_types}
        /\ \A p \in get_pod_safe_types :
              LET tn == p[1]
                  by_value_safe == p[2]
              IN  /\ by_value_safe => is_pod(results, tn)
                  /\ ~by_value_safe =>
                        /\ results[tn].state.tag = "UnsafeToBePod"
                        /\ ~is_pod(results, tn)
                  /\ results[tn].dependent_structs = <<>>

\* C14 witness: the store right after new(): i32 is pod, CxxString is not,
\* and no call has been made.
C14_Witness ==
    /\ JustSeeded
    /\ ret = NoRet /\ requested = <<>>
    /\ is_pod(results, "i32")
    /\ results["CxxString"].state.tag = "UnsafeToBePod"
    /\ ~is_pod(results, "CxxString")

\* C15: satisfy_requests called with a name that is already pod returns Ok
\* and leaves the whole store (every record's state, reason and
\* dependent_structs) as it was before the call.
C15_ConfirmIdempotent ==
    \A t \in TypeNames :
        (CalledWith(t) /\ is_pod(pre, t)) => (ret = Ok /\ results = pre)

\* C15 witness: Foo { a: i32 } was made pod by an earlier call (only
\* satisfy_requests makes a record with dependent_structs pod); the call
\* was repeated, returned Ok and left the store as it was.
C15_Witness ==
    /\ CalledWith("Foo")
    /\ pre["Foo"] = [state |-> IsPod, dependent_structs |-> <<"i32">>]
    /\ ret = Ok
    /\ results = pre

\* C16: satisfy_requests called once with an alias A whose target T is pod
\* returns Ok, and A is pod afterwards; the record of T is as it was.
C16_AliasToPod ==
    \A A \in TypeNames, T \in TypeNames :
        (CalledWith(A) /\ pre[A].state = IsAlias(T) /\ is_pod(pre, T))
        => (ret = Ok /\ is_pod(results, A) /\ results[T] = pre[T])

\* C16 witness: Bar is a typedef of the struct Foo { a: i32 }, which an
\* earlier call made pod; one call with Bar returned Ok and Bar is pod.
C16_Witness ==
    /\ CalledWith("Bar")
    /\ pre["Bar"].state = IsAlias("Foo")
    /\ "Foo" \in DOMAIN pre
    /\ pre["Foo"] = [state |-> IsPod, dependent_structs |-> <<"i32">>]
    /\ ret = Ok
    /\ is_pod(results, "Bar")

\* how far new_from_apis has come
Stage(p) ==
    CASE p = "blocklist" -> 0
      [] p = "apis" -> 1
      [] p = "satisfy" -> 2
      [] p \in {"returned", "exhausted"} -> 3
      [] p = "done" -> 4

\* C17: new_from_apis starts from the seeded store, runs the blocklist
\* loop, then the apis loop, then satisfy_requests once with the pod
\* requests, and never goes back; nothing is returned before
\* satisfy_requests has returned.  It returns the checker, with the store
\* as satisfy_requests left it, only when satisfy_requests returned Ok;
\* when satisfy_requests returned an error it returns that one error and
\* no checker, also when the call had already made some record pod.
C17_Pipeline ==
    /\ [][/\ Stage(pc') >= Stage(pc)
          /\ (pc' = "satisfy" /\ pc # "satisfy") =>
                (Ingesting /\ requests' \in PodRequests /\ results' = results)
          /\ pc' = "blocklist" => pc = "blocklist"]_vars
    /\ [](pc # "done" => out = NoChecker)
    /\ [](pc = "done" =>
            /\ ret # NoRet
            /\ ret = Ok => out = OkChecker(results)
            /\ ret.tag = "Err" => out = UnsafePodType(ret.msg)
            /\ out.tag = "Ok" <=> ret = Ok
            /\ out.tag # "Ok" => out.checker = EmptyMap)

\* C17 witness: new_from_apis has returned an error after satisfy_requests
\* had made a record pod; no checker was returned.
C17_Witness ==
    /\ pc = "done"
    /\ ret.tag = "Err"
    /\ \E t \in DOMAIN pre : ~is_pod(pre, t) /\ is_pod(results, t)
    /\ out = UnsafePodType(ret.msg)
    /\ out.checker = EmptyMap

\* satisfy_requests was called with the one name A, an alias whose target T
\* had no record
AliasToMissing(A, T) ==
    /\ InOrAfterCall
    /\ requested = <<A>>
    /\ A \in DOMAIN pre
    /\ pre[A].state = IsAlias(T)
    /\ T \notin DOMAIN pre

\* C18: when satisfy_requests has popped an alias A whose target T has no
\* record and pushed T and A back, T is the next name it pops; the call
\* does not outgrow its worklist and returns the never-saw error naming T.
C18_AliasTargetFirst ==
    \A A \in TypeNames, T \in TypeNames :
        AliasToMissing(A, T) =>
            /\ (pc = "satisfy" /\ Len(requests) = 2) => requests[Len(requests)] = T
            /\ pc # "exhausted"
            /\ Returned => ret = Err(MsgNeverSaw(T))

\* The struct ingestions <<name, def>> that a run of new_from_apis can
\* make next
PipelineIngestions ==
    IF Ingesting
    THEN {<<name, def>> : name \in DeclNames, def \in PipelineStructs}
    ELSE {}

\* C19 as claimed: a struct ingested while some field type of it has no
\* record is recorded unsafe with the isn't-known reason naming a field
\* type that has no record, whatever its other fields are and whether or
\* not it has a vtable_ field.
C19_MissingFieldFirst ==
    \A nd \in PipelineIngestions :
        LET name == nd[1]
            def == nd[2]
            res == ingest_struct(results, name, def)
            fl == get_field_types(def)
            absent == {fl[j] : j \in {k \in DOMAIN fl : fl[k] \notin DOMAIN results}}
        IN  absent # {} =>
                \E F \in absent :
                    res[name].state = UnsafeToBePod(MsgFieldNotKnown(name, F))

\* C19 as amended: a struct ingested while some field type of it has no
\* record is recorded unsafe.  With a vtable_ field its reason is the
\* has-virtual-functions reason.  Without one, the first field in field
\* order that is absent or unsafe decides: if it is absent, the reason is
\* the isn't-known reason naming it, whatever the later fields are; if it
\* is unsafe, the reason is the dependent-unsafe reason for it, although a
\* later field is absent.
C19_FirstProblemDecides ==
    \A nd \in PipelineIngestions :
        LET name == nd[1]
            def == nd[2]
            res == ingest_struct(results, name, def)
            fl == get_field_types(def)
        IN  (\E k \in DOMAIN fl : fl[k] \notin DOMAIN results) =>
                /\ res[name].state.tag = "UnsafeToBePod"
                /\ Polymorphic(def) => res[name].state.reason = MsgVirtual(name)
                /\ ~Polymorphic(def) =>
                      \A j \in DOMAIN fl :
                          FirstProblem(results, fl, j) =>
                              IF fl[j] \notin DOMAIN results
                              THEN res[name].state.reason =
                                       MsgFieldNotKnown(name, fl[j])
                              ELSE NestsAtEnd(res[name].state.reason, name, fl[j],
                                              results[fl[j]].state.reason)

\* C19 witness: Foo { a: Bar, b: CxxString } was ingested while Bar had no
\* record and CxxString was unsafe; Foo holds the isn't-known reason
\* naming Bar.
C19_Witness ==
    /\ "Foo" \in DOMAIN results
    /\ results["Foo"].dependent_structs = <<"Bar", "CxxString">>
    /\ results["Foo"].state = UnsafeToBePod(MsgFieldNotKnown("Foo", "Bar"))
    /\ "Bar" \notin DOMAIN results
    /\ UnsafeIn(results, "CxxString")

\* C20 as claimed: a struct ingested with a vtable_ field and a field that
\* is absent or unsafe does not get the has-virtual-functions reason; with
\* an unsafe first problem field it gets the dependent-unsafe reason for
\* it.
C20_VirtualReasonLast ==
    \A nd \in StructIngestions :
        LET name == nd[1]
            def == nd[2]
            res == ingest_struct(results, name, def)
            fl == get_field_types(def)
        IN  \A j \in DOMAIN fl :
                (Polymorphic(def) /\ FirstProblem(results, fl, j)) =>
                    /\ res[name].state.reason # MsgVirtual(name)
                    /\ UnsafeIn(results, fl[j]) =>
                          NestsAtEnd(res[name].state.reason, name, fl[j],
                                     results[fl[j]].state.reason)

\* C20 as amended: a struct gets the has-virtual-functions reason exactly
\* when it is ingested with a vtable_ field, also when a field of it is
\* absent or unsafe; satisfy_requests on such a struct returns the
\* has-virtual-functions reason, not the dependent-unsafe one.
C20_VirtualReasonAlways ==
    /\ \A nd \in StructIngestions :
          LET name == nd[1]
              def == nd[2]
              res == ingest_struct(results, name, def)
              fl == get_field_types(def)
          IN  /\ Polymorphic(def) <=> res[name].state.reason = MsgVirtual(name)
              /\ \A j \in DOMAIN fl :
                    (Polymorphic(def) /\ ProblemIn(results, fl[j])) =>
                        /\ res[name].state = UnsafeToBePod(MsgVirtual(name))
                        /\ res[name].dependent_structs = fl
    /\ \A t \in TypeNames :
          (/\ CalledWith(t)
           /\ pre[t].state = UnsafeToBePod(MsgVirtual(t))
           /\ \E j \in DOMAIN pre[t].dependent_structs :
                 ProblemIn(pre, pre[t].dependent_structs[j]))
          => ret = Err(MsgVirtual(t))

\* C20 witness: Foo { vtable_, a: CxxString } was ingested with CxxString
\* unsafe and requested; the call returned the has-virtual-functions
\* reason.
C20_Witness ==
    /\ CalledWith("Foo")
    /\ pre["Foo"].dependent_structs = <<"CxxString">>
    /\ UnsafeIn(pre, "CxxString")
    /\ pre["Foo"].state = UnsafeToBePod(MsgVirtual("Foo"))
    /\ ret = Err(MsgVirtual("Foo"))

\* The name the next iteration of satisfy_requests takes off the worklist
Popped == requests[Len(requests)]

\* The next iteration resolves the alias A against the record of T.
Resolves(A, T) ==
    /\ pc = "satisfy"
    /\ requests # <<>>
    /\ A = Popped
    /\ A \in DOMAIN results
    /\ results[A].state = IsAlias(T)
    /\ T \in DOMAIN results

\* C21: an iteration of satisfy_requests that takes an alias A whose target
\* T has a record leaves in A's record the state T had before the
\* iteration and leaves T's record as it was; and no iteration changes the
\* state of a record other than the one of the name it took, so a later
\* change of T reaches A only when A is taken again.
C21_AliasSnapshot ==
    [][(pc = "satisfy" /\ requests # <<>>) =>
          /\ \A T \in TypeNames :
                Resolves(Popped, T) =>
                    /\ results'[Popped].state = results[T].state
                    /\ T # Popped => results'[T] = results[T]
          /\ \A B \in DOMAIN results \ {Popped} :
                results'[B].state = results[B].state]_vars

\* C21 witness: the call took the alias Foo while its target Bar was
\* SafeToBePod and took Bar afterwards; Bar turned IsPod and Foo still has
\* the state it copied.
C21_Witness ==
    /\ Succeeded
    /\ requested = <<"Bar", "Foo">>
    /\ pre["Foo"].state = IsAlias("Bar")
    /\ pre["Bar"].state = SafeToBePod
    /\ results["Foo"].state = SafeToBePod
    /\ results["Bar"].state = IsPod

\* The name the next iteration takes has no record or an unsafe record.
PoppedFails ==
    \/ Popped \notin DOMAIN results
    \/ results[Popped].state.tag = "UnsafeToBePod"

\* C22: satisfy_requests returns an error in exactly the iteration that
\* takes a name with no record or an unsafe record; that iteration returns
\* at once, leaves the names below it on the worklist untaken and leaves the
\* store as the earlier iterations made it, so what they confirmed stays
\* IsPod.
C22_SingleShotFailure ==
    [][(pc = "satisfy" /\ requests # <<>>) =>
          /\ PoppedFails <=> ret'.tag = "Err"
          /\ PoppedFails =>
                /\ pc' = "returned"
                /\ results' = results
                /\ requests' = SubSeq(requests, 1, Len(requests) - 1)]_vars

\* C22 witness: a call has failed with a name still on the worklist after
\* an earlier iteration had turned a SafeToBePod record IsPod, and that
\* record is still IsPod.
C22_Witness ==
    /\ Failed
    /\ requests # <<>>
    /\ \E t \in DOMAIN pre :
          pre[t].state = SafeToBePod /\ results[t].state = IsPod

\* The running or last call began by taking the name x, which had no record.
FirstTakenIsMissing(x) ==
    /\ InOrAfterCall
    /\ requested # <<>>
    /\ x = requested[Len(requested)]
    /\ x \notin DOMAIN pre

\* C23: when the first name satisfy_requests takes has no record, the call
\* returns in that first iteration with the never-saw error naming that
\* name, and the store is the store the call was made on.
C23_NeverSaw ==
    \A x \in TypeNames :
        FirstTakenIsMissing(x) =>
            /\ results = pre
            /\ pc # "exhausted"
            /\ pc = "satisfy" => requests = requested
            /\ pc # "satisfy" =>
                  /\ ret.tag = "Err"
                  /\ Len(ret.msg) = 1
                  /\ ret.msg[1].kind = "NeverSawDefinition"
                  /\ ret.msg[1].ty = x
                  /\ requests = SubSeq(requested, 1, Len(requested) - 1)

\* C23 witness: satisfy_requests was called with Foo before any
\* declaration of Foo and has returned the never-saw error naming Foo.
C23_Witness ==
    /\ Failed
    /\ requested = <<"Foo">>
    /\ "Foo" \notin DOMAIN pre
    /\ ret.msg = <<Clause("NeverSawDefinition", "Foo", "")>>
    /\ results = pre

\* The reason ends in the blocklist reason.
EndsInBlocklist(reason) ==
    reason # <<>> /\ reason[Len(reason)].kind = "OnBlocklist"

\* The store holds nothing but what new() and the blocklist loop put there.
OnlySeedsAndBlocklist ==
    \A t \in DOMAIN results :
        \/ Blocklisted(results, t)
        \/ t \in DOMAIN new /\ results[t] = new[t]

\* C24 as claimed: a struct ingested with a field whose type holds the
\* blocklist record is recorded unsafe with a reason that ends in the
\* blocklist reason.
C24_BlocklistChain ==
    \A nd \in PipelineIngestions :
        LET name == nd[1]
            def == nd[2]
            res == ingest_struct(results, name, def)
            fl == get_field_types(def)
        IN  (\E j \in DOMAIN fl : Blocklisted(results, fl[j])) =>
                /\ res[name].state.tag = "UnsafeToBePod"
                /\ EndsInBlocklist(res[name].state.reason)

\* C24 as amended: the blocklist records are all stored before the first
\* declaration is ingested, over the seeded record of the same name if
\* there is one, and none is stored later.  A struct ingested with a field
\* whose type holds the blocklist record is recorded unsafe; when the
\* struct has no vtable_ field and that field is the first in field order
\* that is absent or unsafe, its reason ends in the blocklist reason of
\* that type.
C24_BlocklistFirst ==
    /\ [](pc = "blocklist" => OnlySeedsAndBlocklist)
    /\ [][\A tn \in BlockNames :
            (Blocklisted(results', tn) /\ ~Blocklisted(results, tn))
            => pc = "blocklist"]_vars
    /\ [](\A nd \in PipelineIngestions :
            LET name == nd[1]
                def == nd[2]
                res == ingest_struct(results, name, def)
                fl == get_field_types(def)
            IN  \A j \in DOMAIN fl :
                    Blocklisted(results, fl[j]) =>
                        /\ res[name].state.tag = "UnsafeToBePod"
                        /\ (~Polymorphic(def) /\ FirstProblem(results, fl, j)) =>
                              /\ EndsInBlocklist(res[name].state.reason)
                              /\ res[name].state.reason[Len(res[name].state.reason)].ty
                                    = fl[j])

\* C24 witness: i32 was put on the blocklist over its seeded record, and
\* struct Foo { a: CxxString, b: i32 } and struct Bar { a: i32 } were
\* ingested afterwards: both are unsafe, Bar with a reason that ends in
\* the blocklist reason of i32, Foo with one that does not.
C24_Witness ==
    /\ Blocklisted(results, "i32")
    /\ "Foo" \in DOMAIN results /\ "Bar" \in DOMAIN results
    /\ results["Foo"].dependent_structs = <<"CxxString", "i32">>
    /\ results["Foo"].state.tag = "UnsafeToBePod"
    /\ ~EndsInBlocklist(results["Foo"].state.reason)
    /\ results["Bar"].state =
          UnsafeToBePod(MsgFieldUnsafe("Bar", "i32", MsgBlocklist("i32")))

\* The store res without the records of the names outside S
Restrict(res, S) == [t \in (DOMAIN res) \cap S |-> res[t]]

\* The names whose record the step changes, adds or removes
Touched ==
    {t \in (DOMAIN results) \cup (DOMAIN results') :
        \/ t \notin DOMAIN results
        \/ t \notin DOMAIN results'
        \/ results'[t] # results[t]}

\* C25: an ingestion stores one record under the declared name and leaves
\* every other record and every other key as it was.  The record a struct
\* ingestion stores is built afresh: its dependent_structs are the field
\* types of the new definition and nothing else, and its state is what the
\* definition and the records of its field types give, so the record the
\* name held before is not carried over (it is looked at only when the
\* name is one of the field types of the new definition).
C25_IngestReplaces ==
    /\ [][(Ingesting /\ pc' \in {"blocklist", "apis"}) =>
            /\ DOMAIN results \subseteq DOMAIN results'
            /\ Cardinality(Touched) <= 1
            /\ Touched \subseteq DeclNames \cup BlockNames]_vars
    /\ [](\A nd \in PipelineIngestions :
            LET name == nd[1]
                def == nd[2]
                res == ingest_struct(results, name, def)
                fl == get_field_types(def)
                seen == Restrict(results, {fl[j] : j \in DOMAIN fl})
            IN  /\ DOMAIN res = (DOMAIN results) \cup {name}
                /\ \A t \in (DOMAIN results) \ {name} : res[t] = results[t]
                /\ res[name].dependent_structs = fl
                /\ res[name] = ingest_struct(seen, name, def)[name])

\* C25 witness: Foo { a: Bar } was ingested while Bar held the blocklist
\* record, and struct Bar { a: i32 } was ingested afterwards: Bar's record
\* is the struct's, with nothing of the blocklist record, and Foo's record
\* is as it was.
C25_Witness ==
    /\ "Foo" \in DOMAIN results /\ "Bar" \in DOMAIN results
    /\ results["Foo"].state =
          UnsafeToBePod(MsgFieldUnsafe("Foo", "Bar", MsgBlocklist("Bar")))
    /\ results["Bar"] = [state |-> SafeToBePod, dependent_structs |-> <<"i32">>]

\* The record an ingestion of the given kind leaves under the name
EnumRecord == [state |-> IsPod, dependent_structs |-> <<>>]
NonpodRecord(name) ==
    [state |-> UnsafeToBePod(<<Clause("TypedefToComplexType", name, "")>>),
     dependent_structs |-> <<>>]
AliasRecord(target) == [state |-> IsAlias(target), dependent_structs |-> <<>>]

\* C26: the ingestion of an enum stores IsPod; the ingestion of an opaque
\* typedef or of a typedef whose type did not resolve stores UnsafeToBePod
\* with the typedef-to-a-complex-type reason naming the type; the ingestion
\* of a typedef that resolved to target stores IsAlias(target).  Each of
\* them can be made on every store the loops of new_from_apis reach,
\* whatever record the name or the target holds or lacks, and each stores
\* nothing but that record, with empty dependent_structs, in place of the
\* earlier one.
C26_NonStructIngestion ==
    Ingesting =>
        \A name \in DeclNames :
            /\ ENABLED IngestEnum(name)
            /\ ~ENABLED (IngestEnum(name) /\ results'[name] # EnumRecord)
            /\ ENABLED IngestNonpod(name)
            /\ ~ENABLED (IngestNonpod(name) /\ results'[name] # NonpodRecord(name))
            /\ \A target \in TypeNames :
                  /\ ENABLED IngestAlias(name, target)
                  /\ ~ENABLED (IngestAlias(name, target)
                                 /\ results'[name] # AliasRecord(target))

\* C26 witness: Foo { a: Bar } was ingested while Bar held the blocklist
\* record; Bar was then ingested as an opaque typedef and holds the
\* typedef-to-a-complex-type reason with no dependent_structs.
C26_Witness ==
    /\ "Foo" \in DOMAIN results /\ "Bar" \in DOMAIN results
    /\ results["Foo"].state =
          UnsafeToBePod(MsgFieldUnsafe("Foo", "Bar", MsgBlocklist("Bar")))
    /\ results["Bar"] =
          [state |-> UnsafeToBePod(MsgComplexTypedef("Bar")),
           dependent_structs |-> <<>>]

\* The types of the fields of def that have a path type, in field order
PathTypesOf(def) ==
    LET paths == SelectSeq(def, LAMBDA f : f.ty # NonPathTy)
    IN  [i \in DOMAIN paths |-> paths[i].ty]

\* C27: a struct that ingestion records SafeToBePod has as its
\* dependent_structs the types of all its path-typed fields in field order,
\* those of seeded known types included.  The iteration of satisfy_requests
\* that takes a SafeToBePod name pushes exactly that list, and an iteration
\* that takes a name whose record is IsPod changes no record and pushes
\* nothing.
C27_FullFieldList ==
    /\ [](\A nd \in PipelineIngestions :
            LET name == nd[1]
                def == nd[2]
                res == ingest_struct(results, name, def)
            IN  res[name].state = SafeToBePod =>
                    res[name].dependent_structs = PathTypesOf(def))
    /\ [][(pc = "satisfy" /\ pc' = "satisfy" /\ Popped \in DOMAIN results) =>
            LET rest == SubSeq(requests, 1, Len(requests) - 1)
            IN  /\ results[Popped].state = SafeToBePod =>
                      requests' = rest \o results[Popped].dependent_structs
                /\ results[Popped].state = IsPod =>
                      (results' = results /\ requests' = rest)]_vars

\* C27 witness: Foo { a: i32, b: i32 } was recorded SafeToBePod with both
\* fields as its dependent_structs; a call confirmed Foo, took i32 twice
\* and returned Ok with the record of i32 as seeded.
C27_Witness ==
    /\ Succeeded
    /\ \E i \in DOMAIN requested : requested[i] = "Foo"
    /\ pre["Foo"] = [state |-> SafeToBePod, dependent_structs |-> <<"i32", "i32">>]
    /\ results["Foo"] = [state |-> IsPod, dependent_structs |-> <<"i32", "i32">>]
    /\ results["i32"] = new["i32"]

\* Every IsAlias record of res names a target that has a record.
AliasTargetsKnown(res) ==
    \A t \in DOMAIN res :
        res[t].state.tag = "IsAlias" => res[t].state.target \in DOMAIN res

\* The sum of the lengths of the dependent_structs of the SafeToBePod
\* records among the names in S
RECURSIVE PendingDeps(_, _)
PendingDeps(res, S) ==
    IF S = {} THEN 0
    ELSE LET t == CHOOSE x \in S : TRUE
             mine == IF res[t].state = SafeToBePod
                     THEN Len(res[t].dependent_structs)
                     ELSE 0
         IN  mine + PendingDeps(res, S \ {t})

\* What satisfy_requests still has to take at most: the worklist and the
\* dependent_structs that records still SafeToBePod can push.
Potential(res, stack) == Len(stack) + PendingDeps(res, DOMAIN res)

\* C28: on a store in which the target of every IsAlias record has a
\* record, every iteration of satisfy_requests leaves such a store, turns
\* the SafeToBePod record it takes IsPod in the same iteration that pushes
\* its dependent_structs, and lowers the sum of the worklist length and
\* the dependent_structs of the records still SafeToBePod; so the loop
\* ends, also with cyclic dependent_structs and cyclic aliases, and the
\* worklist never outgrows its capacity.
C28_Terminates ==
    [][(pc = "satisfy" /\ requests # <<>> /\ AliasTargetsKnown(results)) =>
          /\ AliasTargetsKnown(results')
          /\ pc' # "exhausted"
          /\ Potential(results', requests') < Potential(results, requests)
          /\ (Popped \in DOMAIN results /\ results[Popped].state = SafeToBePod) =>
                results'[Popped].state = IsPod]_vars

\* C28 witness: Foo is an alias of itself and struct Bar { a: Bar } was
\* recorded SafeToBePod over an earlier record of Bar; the call with both
\* names returned Ok, with Bar confirmed.
C28_Witness ==
    /\ Succeeded
    /\ requested = <<"Foo", "Bar">>
    /\ pre["Foo"].state = IsAlias("Foo")
    /\ pre["Bar"] = [state |-> SafeToBePod, dependent_structs |-> <<"Bar">>]
    /\ results["Bar"].state = IsPod

\* The states the records of res hold, and IsPod
StatesOf(res) == {res[u].state : u \in DOMAIN res} \cup {IsPod}

\* C29: a call of satisfy_requests, while it runs and after it has
\* returned Ok or an error, has added and removed no key and changed no
\* dependent_structs; a record that was IsPod or UnsafeToBePod when the
\* call was made is as it was, one that was SafeToBePod is SafeToBePod or
\* IsPod, and one that was IsAlias holds the state it had or one copied
\* from another record.  An iteration changes the state of the record of
\* the name it takes and nothing else: from SafeToBePod to IsPod, or from
\* IsAlias to the state of the target.
C29_ConfirmFrame ==
    /\ [](InOrAfterCall =>
            /\ DOMAIN results = DOMAIN pre
            /\ \A t \in DOMAIN pre :
                  /\ results[t].dependent_structs = pre[t].dependent_structs
                  /\ Terminal(pre[t].state) => results[t] = pre[t]
                  /\ pre[t].state = SafeToBePod =>
                        results[t].state \in {SafeToBePod, IsPod}
                  /\ results[t].state \in StatesOf(pre))
    /\ [][pc = "satisfy" =>
            \A t \in DOMAIN results :
                results'[t] # results[t] =>
                    /\ requests # <<>> /\ t = Popped
                    /\ \/ results[t].state = SafeToBePod
                          /\ results'[t].state = IsPod
                       \/ results[t].state.tag = "IsAlias"
                          /\ results[t].state.target \in DOMAIN results
                          /\ results'[t].state =
                                results[results[t].state.target].state]_vars

\* C29 witness: a call has returned after confirming a struct that has
\* dependent_structs and resolving an alias; the struct's
\* dependent_structs are as they were.
C29_Witness ==
    /\ Returned
    /\ \E t \in DOMAIN pre :
          /\ pre[t].state = SafeToBePod
          /\ results[t].state = IsPod
          /\ results[t].dependent_structs # <<>>
    /\ \E a \in DOMAIN pre :
          /\ pre[a].state.tag = "IsAlias"
          /\ results[a].state.tag # "IsAlias"

\* The running or last call was made with [A, A] while A was an alias of
\* the SafeToBePod record T.
AliasOfCandidateTwice(A, T) ==
    /\ requested = <<A, A>>
    /\ A \in DOMAIN pre /\ T \in DOMAIN pre
    /\ pre[A].state = IsAlias(T)
    /\ pre[T].state = SafeToBePod

\* C30: resolving an alias A against a struct T that is SafeToBePod leaves
\* A SafeToBePod with A's own, empty dependent_structs; when A is taken
\* again, A turns IsPod and nothing is pushed: the call returns Ok with
\* every record but A's as it was, T still SafeToBePod and T's field types
\* never taken.
C30_AliasCopiesVerdictOnly ==
    \A A \in DeclNames, T \in DeclNames :
        AliasOfCandidateTwice(A, T) =>
            /\ pc # "exhausted"
            /\ \A u \in (DOMAIN pre) \ {A} : results[u] = pre[u]
            /\ results[A].dependent_structs = <<>>
            /\ (pc = "satisfy" /\ requests = <<A, A>>) => results[A] = pre[A]
            /\ (pc = "satisfy" /\ requests = <<A>>) => results[A].state = SafeToBePod
            /\ (pc = "satisfy" /\ requests = <<>>) => results[A].state = IsPod
            /\ pc = "satisfy" => requests \in {<<A, A>>, <<A>>, <<>>}
            /\ pc \in {"returned", "done"} => (ret = Ok /\ results[A].state = IsPod)

\* C30 witness: Foo was an alias of struct Bar { a: i32 }, which was
\* SafeToBePod; the call with [Foo, Foo] returned Ok, Foo is pod and Bar is
\* still SafeToBePod.
C30_Witness ==
    /\ Succeeded
    /\ AliasOfCandidateTwice("Foo", "Bar")
    /\ pre["Bar"].dependent_structs = <<"i32">>
    /\ is_pod(results, "Foo")
    /\ results["Bar"] = [state |-> SafeToBePod, dependent_structs |-> <<"i32">>]

\* Every item the parser has gone through under the name T is a struct or
\* an enum.
OnlyStructOrEnum(T) ==
    \A i \in DOMAIN items :
        items[i].name = T => items[i].kind \in {"Struct", "Enum"}

\* The items gone through that are a struct or an enum with a blocklisted
\* name
BlocklistedTypeItems ==
    {i \in DOMAIN items :
        items[i].kind \in {"Struct", "Enum"} /\ items[i].name \in type_config}

\* C31: the parser pushes no api for a struct or an enum whose name is on
\* the blocklist, so the apis hold no Type record under a blocklisted
\* name.  When new_from_apis runs on what the parser returned, a
\* blocklisted name that bindgen declared only as a struct or an enum
\* keeps the blocklist record from the blocklist loop on: through the apis
\* loop, through satisfy_requests and in the checker that is returned, and
\* it is never pod.
C31_ParserSkipsBlocklisted ==
    /\ [](\A i \in DOMAIN apis :
            apis[i].detail = "Type" => apis[i].name \notin type_config)
    /\ [](pc = "parse" =>
            Len(apis) = Len(items) - Cardinality(BlocklistedTypeItems))
    /\ [](\A T \in type_config :
            OnlyStructOrEnum(T) =>
                /\ pc \notin {"parse", "blocklist"} =>
                      (Blocklisted(results, T) /\ ~is_pod(results, T))
                /\ (pc = "done" /\ out.tag = "Ok") =>
                      (Blocklisted(out.checker, T) /\ ~is_pod(out.checker, T)))
    /\ [][\A T \in type_config :
            (pc # "parse" /\ Blocklisted(results, T) /\ OnlyStructOrEnum(T))
            => Blocklisted(results', T)]_vars

\* C31 witness: Bar is on the blocklist and bindgen declared struct
\* Bar { a: i32 }; the parser went through it, new_from_apis ran to its
\* end and returned a checker, in which Bar holds the blocklist record.
C31_Witness ==
    /\ pc = "done"
    /\ "Bar" \in type_config
    /\ \E i \in DOMAIN items :
          items[i] = Item("Struct", "Bar", <<Field("a", "i32")>>, "")
    /\ OnlyStructOrEnum("Bar")
    /\ out.tag = "Ok"
    /\ Blocklisted(out.checker, "Bar")
    /\ ~is_pod(out.checker, "Bar")

====
